---- MODULE Spec2Model ----
(***************************************************************************)
(* Model of the ticker-universe code of us-stock-data-in-korean:           *)
(*   financialdatapy/cik.py   get_cik, search_cik                          *)
(*   financialdatapy/stock.py StockList, Stock                             *)
(*   scripts/main.py          the diff script                              *)
(* A Python str is a sequence of one-character strings, so that upper(),   *)
(* the regular expressions, capwords() and str() are computed character by *)
(* character.  None is the one-element sequence <<"None">>, which no str   *)
(* of the model equals.                                                    *)
(***************************************************************************)
EXTENDS Integers, Sequences, FiniteSets, TLC

VARIABLES pc, cik_data, latest_stock_list, old_stock_list, diff, db, error,
          stdout, us_stock_list, op, arg, ret, exc, stock

vars == <<pc, cik_data, latest_stock_list, old_stock_list, diff, db, error,
          stdout, us_stock_list, op, arg, ret, exc, stock>>

main_vars == <<pc, cik_data, latest_stock_list, old_stock_list, diff, db,
               error, stdout>>

call_vars == <<us_stock_list, op, arg, ret, exc, stock>>

(***************************************************************************)
(* Bounds of the model.                                                    *)
(***************************************************************************)
MaxBatch == 2

MaxSnapshot == 2

MaxCodeLen == 4

(***************************************************************************)
(* Python values.                                                          *)
(***************************************************************************)
None == <<"None">>

NoError == "NoError"

LowerChars == <<"a","b","c","d","e","f","g","h","i","j","k","l","m",
                "n","o","p","q","r","s","t","u","v","w","x","y","z">>

UpperChars == <<"A","B","C","D","E","F","G","H","I","J","K","L","M",
                "N","O","P","Q","R","S","T","U","V","W","X","Y","Z">>

DigitChars == <<"0","1","2","3","4","5","6","7","8","9">>

IsLower(c) == \E i \in 1..26 : LowerChars[i] = c

IsUpper(c) == \E i \in 1..26 : UpperChars[i] = c

IsLetter(c) == IsLower(c) \/ IsUpper(c)

IsDigit(c) == \E i \in 1..10 : DigitChars[i] = c

IsSpace(c) == c = " "

IsSlash(c) == c = "/" \/ c = "\\"

\* \w of the re module: letters, digits and the underscore.
IsWordChar(c) == IsLetter(c) \/ IsDigit(c) \/ c = "_"

upper_char(c) ==
    IF IsLower(c) THEN UpperChars[CHOOSE i \in 1..26 : LowerChars[i] = c]
    ELSE c

lower_char(c) ==
    IF IsUpper(c) THEN LowerChars[CHOOSE i \in 1..26 : UpperChars[i] = c]
    ELSE c

\* str.upper()
upper(s) == [i \in 1..Len(s) |-> upper_char(s[i])]

RECURSIVE str(_)
\* str(n) of a non-negative int: its decimal digits, no leading zeros.
str(n) ==
    IF n < 10 THEN <<DigitChars[n + 1]>>
    ELSE str(n \div 10) \o <<DigitChars[(n % 10) + 1]>>

\* '0' * n ; a negative n gives the empty str.
zeros_str(n) == [i \in 1..n |-> "0"]

RECURSIVE skip_letters(_, _)
\* [a-zA-Z]* from position i: the first position that is not a letter.
skip_letters(s, i) ==
    IF i <= Len(s) /\ IsLetter(s[i]) THEN skip_letters(s, i + 1) ELSE i

RECURSIVE regex_sub(_, _)
\* regex.sub('', s) for the pattern \s?(\/|\\)[a-zA-Z]* , scanning from i.
regex_sub(s, i) ==
    IF i > Len(s) THEN <<>>
    ELSE IF IsSlash(s[i]) THEN regex_sub(s, skip_letters(s, i + 1))
    ELSE IF IsSpace(s[i]) /\ i + 1 <= Len(s) /\ IsSlash(s[i + 1])
         THEN regex_sub(s, skip_letters(s, i + 2))
    ELSE <<s[i]>> \o regex_sub(s, i + 1)

RECURSIVE capwords_from(_, _, _, _)
\* string.capwords(s): split on whitespace runs, capitalize every word,
\* join with one space.
capwords_from(s, i, out, inWord) ==
    IF i > Len(s) THEN out
    ELSE IF IsSpace(s[i]) THEN capwords_from(s, i + 1, out, FALSE)
    ELSE IF inWord
         THEN capwords_from(s, i + 1, Append(out, lower_char(s[i])), TRUE)
    ELSE capwords_from(s, i + 1,
                       (IF out = <<>> THEN out ELSE Append(out, " "))
                           \o <<upper_char(s[i])>>,
                       TRUE)

capwords(s) == capwords_from(s, 1, <<>>, FALSE)

(***************************************************************************)
(* cik.py                                                                  *)
(***************************************************************************)
\* Series.str.upper(): a missing value stays missing.
series_str_upper(x) == IF x = None THEN None ELSE upper(x)

\* The exchange filter without line 22: the comparison is case-sensitive.
exchange_mask_case_sensitive(row) ==
    row.exchange = <<"N","A","S","D","A","Q">> \/ row.exchange = <<"N","Y","S","E">>

\* cik.py:23-25, the row mask of the exchange filter.
exchange_mask(row) ==
    LET e == series_str_upper(row.exchange)
    IN  e = <<"N","A","S","D","A","Q">> \/ e = <<"N","Y","S","E">>

RECURSIVE filter_exchange_dedup(_)
\* The exchange filter followed by drop_duplicates('ticker', keep='last').
filter_exchange_dedup(rows) ==
    IF rows = <<>> THEN <<>>
    ELSE LET r == Head(rows)
             rest == filter_exchange_dedup(Tail(rows))
         IN  IF /\ exchange_mask(r)
                /\ ~\E i \in DOMAIN rest : rest[i].ticker = r.ticker
             THEN <<[cik |-> r.cik, name |-> r.name, ticker |-> r.ticker]>>
                      \o rest
             ELSE rest

RECURSIVE filter_exchange(_)
\* cik.py:22-27: keep the masked rows in source order, drop the column.
filter_exchange(rows) ==
    IF rows = <<>> THEN <<>>
    ELSE LET r == Head(rows)
             rest == filter_exchange(Tail(rows))
         IN  IF exchange_mask(r)
             THEN <<[cik |-> r.cik, name |-> r.name, ticker |-> r.ticker]>>
                      \o rest
             ELSE rest

\* The name clean-up run before the exchange filter: any row without a name
\* raises.
get_cik_raises_unfiltered(rows) ==
    \E i \in DOMAIN rows : rows[i].name = None

\* cik.py:35 raises TypeError when a kept row has no name (regex.sub on None).
get_cik_raises(rows) ==
    \E i \in DOMAIN filter_exchange(rows) : filter_exchange(rows)[i].name = None

\* cik.py:7-40: the listing returned when nothing raises.
get_cik(rows) ==
    LET kept == filter_exchange(rows)
    IN  [i \in DOMAIN kept |->
            [cik    |-> str(kept[i].cik),
             name   |-> capwords(regex_sub(kept[i].name, 1)),
             ticker |-> kept[i].ticker]]

\* A lookup that folds the case of the listing's tickers too.
search_rows_case_insensitive(cik_list, ticker) ==
    {i \in DOMAIN cik_list : upper(cik_list[i].ticker) = upper(ticker)}

\* cik.py:55-56: the rows a lookup selects.
search_rows(cik_list, ticker) ==
    {i \in DOMAIN cik_list : cik_list[i].ticker = upper(ticker)}

\* cik.py:57: Series.item() raises ValueError unless exactly one row matches.
search_cik_raises(cik_list, ticker) ==
    Cardinality(search_rows(cik_list, ticker)) # 1

\* A lookup that returns the stored cik as it is, without the zeros.
search_cik_unpadded(cik_list, ticker) ==
    cik_list[CHOOSE i \in DOMAIN cik_list :
                 cik_list[i].ticker = upper(ticker)].cik

CikWidth == 10

\* cik.py:43-64: the value returned when item() does not raise.
search_cik(cik_list, ticker) ==
    LET cik == cik_list[CHOOSE i \in search_rows(cik_list, ticker) : TRUE].cik
        zeros == CikWidth - Len(cik)
    IN  zeros_str(zeros) \o cik


(***************************************************************************)
(* stock.py: Stock                                                         *)
(***************************************************************************)
\* stock.py:91: the positions where \b[a-zA-Z]{3}\b matches in s.
alpha3_positions(s) ==
    {i \in 1..(Len(s) - 2) :
        /\ IsLetter(s[i]) /\ IsLetter(s[i + 1]) /\ IsLetter(s[i + 2])
        /\ (i = 1 \/ ~IsWordChar(s[i - 1]))
        /\ (i + 3 > Len(s) \/ ~IsWordChar(s[i + 3]))}

\* stock.py:90-96: re.search raises TypeError on a non-str, and .group()
\* raises AttributeError when nothing matches; both become
\* CountryCodeValidationFailed.
validate_country_code_raises(country_code) ==
    country_code = None \/ alpha3_positions(country_code) = {}

\* stock.py:80-98: the leftmost match, in uppercase.
validate_country_code(country_code) ==
    LET P == alpha3_positions(country_code)
        p == CHOOSE i \in P : \A j \in P : i <= j
    IN  upper(SubSeq(country_code, p, p + 2))

(***************************************************************************)
(* The registry payloads and snapshots the model draws from.               *)
(***************************************************************************)
AAPL == <<"A","A","P","L">>

QCOM == <<"Q","C","O","M">>

qcom == <<"q","c","o","m">>

AMZN == <<"A","M","Z","N">>

RawPool ==
    { [cik |-> 320193,  name |-> <<"A","p","p","l","e"," ","I","n","c",".">>,
       ticker |-> AAPL, exchange |-> <<"N","a","s","d","a","q">>],
      [cik |-> 1652044, name |-> <<"Q","u","a","l","c","o","m","m"," ","i","n","c","\\","d","e">>,
       ticker |-> qcom, exchange |-> <<"n","a","s","d","a","q">>],
      [cik |-> 804328,  name |-> <<"Q","U","A","L","C","O","M","M"," ","I","N","C"," ","/","D","E","/">>,
       ticker |-> QCOM, exchange |-> <<"N","Y","S","E">>],
      [cik |-> 1018724, name |-> <<"A","M","A","Z","O","N"," ","C","O","M"," ","I","N","C">>,
       ticker |-> AMZN, exchange |-> <<"O","T","C">>],
      [cik |-> 2147483647, name |-> <<"A","p","p","l","e"," ","H","o","s","p","i","t","a","l","i","t","y">>,
       ticker |-> AAPL, exchange |-> <<"N","Y","S","E">>],
      [cik |-> 7,       name |-> None,
       ticker |-> AMZN, exchange |-> <<"N","A","S","D","A","Q">>],
      [cik |-> 42,      name |-> None,
       ticker |-> QCOM, exchange |-> <<"O","T","C">>],
      [cik |-> 99,      name |-> <<"N","o"," ","E","x","c","h","a","n","g","e">>,
       ticker |-> QCOM, exchange |-> None] }

\* Sequences over S of length at most n.
SeqUpTo(S, n) == UNION {[1..k -> S] : k \in 0..n}

RawBatches == SeqUpTo(RawPool, MaxBatch)

\* The rows a stored snapshot is made of: rows get_cik has produced.
SnapshotPool ==
    {get_cik(<<r>>)[1] : r \in {x \in RawPool : exchange_mask(x) /\ x.name # None}}

Snapshots == SeqUpTo(SnapshotPool, MaxSnapshot)

Symbols == {AAPL, QCOM, qcom, AMZN, <<"a","a","p","l">>, <<"M","S","F","T">>}

CodeChars == {"u", "S", "a", " ", "1"}

CountryCodes == SeqUpTo(CodeChars, MaxCodeLen) \cup {None}


(***************************************************************************)
(* scripts/main.py                                                         *)
(***************************************************************************)
EmptyChangeset == [added |-> {}, removed |-> {}, changed |-> {}]

\* The rows of a listing, as a set.
Rows(listing) == {listing[i] : i \in DOMAIN listing}

\* Database.read_db(): the whole stored table, empty when nothing is stored.
read_db(table) == table

\* The row a ticker is keyed to in a listing: the last one carrying it.
keyed(listing, t) ==
    listing[CHOOSE i \in DOMAIN listing :
                /\ listing[i].ticker = t
                /\ \A j \in DOMAIN listing : listing[j].ticker = t => j <= i]

HasTicker(listing, t) == \E i \in DOMAIN listing : listing[i].ticker = t

RECURSIVE diff_latest(_, _, _, _)
\* One pass over latest from row i: a ticker without a match in prior is
\* added, a ticker whose keyed prior row differs is changed.
diff_latest(prior, latest, i, acc) ==
    IF i > Len(latest) THEN acc
    ELSE LET r == latest[i]
         IN  IF ~HasTicker(prior, r.ticker)
             THEN diff_latest(prior, latest, i + 1,
                      [acc EXCEPT !.added = @ \cup {r}])
             ELSE IF keyed(prior, r.ticker) # r
             THEN diff_latest(prior, latest, i + 1,
                      [acc EXCEPT !.changed =
                                    @ \cup {<<keyed(prior, r.ticker), r>>}])
             ELSE diff_latest(prior, latest, i + 1, acc)

RECURSIVE diff_prior(_, _, _, _)
\* One pass over prior from row i: a ticker without a match in latest is
\* removed.
diff_prior(prior, latest, i, acc) ==
    IF i > Len(prior) THEN acc
    ELSE IF ~HasTicker(latest, prior[i].ticker)
         THEN diff_prior(prior, latest, i + 1,
                  [acc EXCEPT !.removed = @ \cup {prior[i]}])
    ELSE diff_prior(prior, latest, i + 1, acc)

\* stocklist.check_diff(old, latest): the Changeset between two listings.
check_diff(prior, latest) ==
    diff_prior(prior, latest, 1, diff_latest(prior, latest, 1, EmptyChangeset))

NoCall ==
    /\ us_stock_list = <<>>
    /\ op = "none"
    /\ arg = <<>>
    /\ ret = None
    /\ exc = NoError
    /\ stock = None

\* The script starts with some snapshot in the stock_list table.
Init ==
    /\ pc = "get_stock_list"
    /\ cik_data = <<>>
    /\ latest_stock_list = <<>>
    /\ old_stock_list = <<>>
    /\ diff = EmptyChangeset
    /\ db \in Snapshots
    /\ error = NoError
    /\ stdout = <<>>
    /\ NoCall

\* The failed request caught and printed, as connect.py:16-17 does: the
\* script ends without an error.
FetchFailed_swallowed ==
    /\ pc = "get_stock_list"
    /\ pc' = "failed"
    /\ error' = NoError
    /\ UNCHANGED <<cik_data, latest_stock_list, old_stock_list, diff, db,
                   stdout>>
    /\ UNCHANGED call_vars

\* main.py:10 with cik.py:16-18 failing: the request or the JSON decoding
\* raises, and the uncaught exception ends the script.
FetchFailed ==
    /\ pc = "get_stock_list"
    /\ pc' = "failed"
    /\ error' = "RequestError"
    /\ UNCHANGED <<cik_data, latest_stock_list, old_stock_list, diff, db,
                   stdout>>
    /\ UNCHANGED call_vars

\* main.py:10: the payload arrives and is normalized (cik.py:20-40).
GetStockList ==
    /\ pc = "get_stock_list"
    /\ \E rows \in RawBatches :
        /\ ~get_cik_raises(rows)
        /\ cik_data' = rows
        /\ latest_stock_list' = get_cik(rows)
    /\ pc' = "Database"
    /\ UNCHANGED <<old_stock_list, diff, db, error, stdout>>
    /\ UNCHANGED call_vars

\* main.py:10: the payload arrives and its normalization raises TypeError
\* (cik.py:35); the uncaught exception ends the script.
GetStockListRaises ==
    /\ pc = "get_stock_list"
    /\ \E rows \in RawBatches :
        /\ get_cik_raises(rows)
        /\ cik_data' = rows
    /\ pc' = "failed"
    /\ error' = "TypeError"
    /\ UNCHANGED <<latest_stock_list, old_stock_list, diff, db, stdout>>
    /\ UNCHANGED call_vars

\* main.py:11: the connection is made.
ConnectDb ==
    /\ pc = "Database"
    /\ pc' = "read_db"
    /\ UNCHANGED <<cik_data, latest_stock_list, old_stock_list, diff, db,
                   error, stdout>>
    /\ UNCHANGED call_vars

\* main.py:11: the connection cannot be made; the exception ends the script.
ConnectDbFailed ==
    /\ pc = "Database"
    /\ pc' = "failed"
    /\ error' = "DatabaseError"
    /\ UNCHANGED <<cik_data, latest_stock_list, old_stock_list, diff, db,
                   stdout>>
    /\ UNCHANGED call_vars

\* main.py:12
ReadDb ==
    /\ pc = "read_db"
    /\ old_stock_list' = read_db(db)
    /\ pc' = "check_diff"
    /\ UNCHANGED <<cik_data, latest_stock_list, diff, db, error, stdout>>
    /\ UNCHANGED call_vars

\* The call of line 13 with its two arguments exchanged.
CheckDiff_swapped ==
    /\ pc = "check_diff"
    /\ diff' = check_diff(latest_stock_list, old_stock_list)
    /\ pc' = "print"
    /\ UNCHANGED <<cik_data, latest_stock_list, old_stock_list, db, error,
                   stdout>>
    /\ UNCHANGED call_vars

\* main.py:13
CheckDiff ==
    /\ pc = "check_diff"
    /\ diff' = check_diff(old_stock_list, latest_stock_list)
    /\ pc' = "print"
    /\ UNCHANGED <<cik_data, latest_stock_list, old_stock_list, db, error,
                   stdout>>
    /\ UNCHANGED call_vars

\* The script with a write of the latest listing after the print.
PrintDiff_persist ==
    /\ pc = "print"
    /\ stdout' = Append(stdout, diff)
    /\ db' = latest_stock_list
    /\ pc' = "done"
    /\ UNCHANGED <<cik_data, latest_stock_list, old_stock_list, diff, error>>
    /\ UNCHANGED call_vars

\* main.py:14: the Changeset goes to the caller's terminal and the script
\* ends; nothing is written to the table.
PrintDiff ==
    /\ pc = "print"
    /\ stdout' = Append(stdout, diff)
    /\ pc' = "done"
    /\ UNCHANGED <<cik_data, latest_stock_list, old_stock_list, diff, db,
                   error>>
    /\ UNCHANGED call_vars

Next ==
    \/ FetchFailed
    \/ GetStockList
    \/ GetStockListRaises
    \/ ConnectDb
    \/ ConnectDbFailed
    \/ ReadDb
    \/ CheckDiff
    \/ PrintDiff

Spec == Init /\ [][Next]_vars


(***************************************************************************)
(* stock.py: StockList, the listing held in a class variable.              *)
(***************************************************************************)
NoRun ==
    /\ pc = "none"
    /\ latest_stock_list = <<>>
    /\ old_stock_list = <<>>
    /\ diff = EmptyChangeset
    /\ db = <<>>
    /\ error = NoError
    /\ stdout = <<>>

\* stock.py:30: the class body loads the listing once, at import.
InitStock ==
    /\ NoRun
    /\ cik_data \in {rows \in RawBatches : ~get_cik_raises(rows)}
    /\ us_stock_list = get_cik(cik_data)
    /\ op = "none"
    /\ arg = <<>>
    /\ ret = None
    /\ exc = NoError
    /\ stock = None

\* A client of StockList imports the class, refreshes the listing at most
\* once and then looks one symbol up.
\* stock.py:32-41: the listing is replaced by a freshly normalized payload.
update_stock_list ==
    /\ op = "none"
    /\ \E rows \in RawBatches :
        /\ ~get_cik_raises(rows)
        /\ cik_data' = rows
        /\ us_stock_list' = get_cik(rows)
    /\ op' = "update_stock_list"
    /\ arg' = <<>>
    /\ ret' = None
    /\ exc' = NoError
    /\ UNCHANGED stock
    /\ UNCHANGED <<pc, latest_stock_list, old_stock_list, diff, db, error,
                   stdout>>

\* stock.py:41 raising: the request fails, or the normalization raises
\* TypeError; the assignment does not happen.
update_stock_list_raises ==
    /\ op = "none"
    /\ \/ exc' = "RequestError"
       \/ /\ \E rows \in RawBatches : get_cik_raises(rows)
          /\ exc' = "TypeError"
    /\ op' = "update_stock_list"
    /\ arg' = <<>>
    /\ ret' = None
    /\ UNCHANGED <<us_stock_list, cik_data, stock>>
    /\ UNCHANGED <<pc, latest_stock_list, old_stock_list, diff, db, error,
                   stdout>>

\* stock.py:43-62: a lookup that returns.
StockList_search_cik ==
    /\ op # "search_cik"
    /\ \E symbol \in Symbols :
        /\ ~search_cik_raises(us_stock_list, symbol)
        /\ arg' = symbol
        /\ ret' = search_cik(us_stock_list, symbol)
    /\ op' = "search_cik"
    /\ exc' = NoError
    /\ UNCHANGED <<us_stock_list, cik_data, stock>>
    /\ UNCHANGED <<pc, latest_stock_list, old_stock_list, diff, db, error,
                   stdout>>

\* stock.py:55: a lookup whose item() raises ValueError.
StockList_search_cik_raises ==
    /\ op # "search_cik"
    /\ \E symbol \in Symbols :
        /\ search_cik_raises(us_stock_list, symbol)
        /\ arg' = symbol
    /\ op' = "search_cik"
    /\ ret' = None
    /\ exc' = "ValueError"
    /\ UNCHANGED <<us_stock_list, cik_data, stock>>
    /\ UNCHANGED <<pc, latest_stock_list, old_stock_list, diff, db, error,
                   stdout>>

NextStock ==
    \/ update_stock_list
    \/ update_stock_list_raises
    \/ StockList_search_cik
    \/ StockList_search_cik_raises

SpecStock == InitStock /\ [][NextStock]_vars

(***************************************************************************)
(* stock.py: Stock(symbol, country_code)                                   *)
(***************************************************************************)
InitCountry ==
    /\ NoRun
    /\ cik_data = <<>>
    /\ NoCall

\* A client constructs one Stock.
\* stock.py:75-78: the constructor returns an object.
Stock_init ==
    /\ op = "none"
    /\ \E symbol \in Symbols, country_code \in CountryCodes :
        /\ ~validate_country_code_raises(country_code)
        /\ arg' = <<symbol, country_code>>
        /\ stock' = [symbol |-> symbol,
                     country_code |-> validate_country_code(country_code)]
    /\ op' = "Stock"
    /\ exc' = NoError
    /\ UNCHANGED <<us_stock_list, ret, cik_data>>
    /\ UNCHANGED <<pc, latest_stock_list, old_stock_list, diff, db, error,
                   stdout>>

\* stock.py:93-96: the constructor raises; no object is made.
Stock_init_raises ==
    /\ op = "none"
    /\ \E symbol \in Symbols, country_code \in CountryCodes :
        /\ validate_country_code_raises(country_code)
        /\ arg' = <<symbol, country_code>>
    /\ stock' = None
    /\ op' = "Stock"
    /\ exc' = "CountryCodeValidationFailed"
    /\ UNCHANGED <<us_stock_list, ret, cik_data>>
    /\ UNCHANGED <<pc, latest_stock_list, old_stock_list, diff, db, error,
                   stdout>>

NextCountry ==
    \/ Stock_init
    \/ Stock_init_raises

SpecCountry == InitCountry /\ [][NextCountry]_vars


(***************************************************************************)
(* Vocabulary of the properties.                                           *)
(***************************************************************************)
lower(s) == [i \in 1..Len(s) |-> lower_char(s[i])]

AllDigits(s) == \A i \in 1..Len(s) : IsDigit(s[i])

RECURSIVE int_upto(_, _)
\* The number the first n characters of a str of decimal digits denote.
int_upto(s, n) ==
    IF n = 0 THEN 0
    ELSE 10 * int_upto(s, n - 1)
             + ((CHOOSE d \in 1..10 : DigitChars[d] = s[n]) - 1)

int(s) == int_upto(s, Len(s))

\* A raw record whose exchange is NASDAQ or NYSE whatever its letter case.
Listed(row) ==
    /\ row.exchange # None
    /\ lower(row.exchange) \in {<<"n","a","s","d","a","q">>, <<"n","y","s","e">>}

ListedIdx(rows) == {i \in DOMAIN rows : Listed(rows[i])}

\* The raw record behind row k of the listing made from rows.
SourceOf(rows, k) ==
    LET L == ListedIdx(rows)
    IN  rows[CHOOSE j \in L : Cardinality({m \in L : m <= j}) = k]

UniqueTickers(listing) ==
    \A i, j \in DOMAIN listing : i # j => listing[i].ticker # listing[j].ticker

Reverse(listing) == [i \in 1..Len(listing) |-> listing[Len(listing) + 1 - i]]

Tickers(listing) == {listing[i].ticker : i \in DOMAIN listing}

\* t is the uppercase form of a.
IsUpperOf(t, a) ==
    /\ Len(t) = Len(a)
    /\ \A i \in 1..Len(t) : lower_char(t[i]) = lower_char(a[i]) /\ ~IsLower(t[i])

\* The script has a normalized listing of the payload in cik_data.
Normalized ==
    \/ pc \in {"Database", "read_db", "check_diff", "print", "done"}
    \/ pc = "failed" /\ error = "DatabaseError"

\* The payload has arrived: the normalization has run or has raised.
Fetched == pc # "get_stock_list" /\ error # "RequestError"

(***************************************************************************)
(* C1: a run whose fetch or normalize step fails ends with the error       *)
(* surfaced and has written nothing: the table and the output are what     *)
(* they were before the run.                                               *)
(***************************************************************************)
C1_FailedRunWritesNothing ==
    [][(pc = "get_stock_list" /\ pc' # "Database")
          => /\ pc' = "failed"
             /\ error' \in {"RequestError", "TypeError"}
             /\ db' = db
             /\ stdout' = stdout]_vars

C1_Witness ==
    /\ pc = "failed"
    /\ error = "TypeError"
    /\ Len(db) = 2
    /\ Len(cik_data) = 2

(***************************************************************************)
(* C2 as stated: after a run in which every step succeeds, the persisted   *)
(* snapshot equals the normalized latest listing of that run.              *)
(***************************************************************************)
C2_Original == pc = "done" => db = latest_stock_list

(***************************************************************************)
(* C2 as amended: after a run in which every step succeeds, the persisted  *)
(* snapshot is still the prior snapshot the run has read, and the          *)
(* Changeset has been printed, so a following run over the same payload    *)
(* computes the same Changeset again; a run that starts with an empty      *)
(* table prints added = the whole normalized latest listing and leaves the *)
(* table empty.                                                            *)
(***************************************************************************)
C2_SnapshotUntouched ==
    pc = "done"
        => /\ db = old_stock_list
           /\ stdout = <<diff>>
           /\ check_diff(read_db(db), latest_stock_list) = diff
           /\ old_stock_list = <<>>
                 => /\ diff.added = Rows(latest_stock_list)
                    /\ diff.removed = {}
                    /\ diff.changed = {}
                    /\ db = <<>>

C2_Witness ==
    /\ pc = "done"
    /\ old_stock_list = <<>>
    /\ Len(latest_stock_list) = 2
    /\ Cardinality(diff.added) = 2

(***************************************************************************)
(* C4: for listings with unique tickers the Changeset is: added = the rows *)
(* of latest whose ticker is not in prior, removed = the rows of prior     *)
(* whose ticker is not in latest, changed = the pairs of equal ticker      *)
(* whose cik or name differs; equal listings give the empty Changeset, an  *)
(* empty prior gives added only, an empty latest gives removed only, and   *)
(* the order of the rows in either listing does not matter.                *)
(***************************************************************************)
C4_DiffIsExact ==
    (pc \in {"print", "done"} /\ UniqueTickers(old_stock_list)
         /\ UniqueTickers(latest_stock_list))
        => LET prior == old_stock_list
               latest == latest_stock_list
           IN  /\ diff.added =
                     {r \in Rows(latest) : r.ticker \notin Tickers(prior)}
               /\ diff.removed =
                     {r \in Rows(prior) : r.ticker \notin Tickers(latest)}
               /\ diff.changed =
                     {c \in Rows(prior) \X Rows(latest) :
                         /\ c[1].ticker = c[2].ticker
                         /\ (c[1].cik # c[2].cik \/ c[1].name # c[2].name)}
               /\ Rows(prior) = Rows(latest) => diff = EmptyChangeset
               /\ prior = <<>>
                     => diff = [added |-> Rows(latest), removed |-> {},
                                changed |-> {}]
               /\ latest = <<>>
                     => diff = [added |-> {}, removed |-> Rows(prior),
                                changed |-> {}]
               /\ diff = check_diff(Reverse(prior), Reverse(latest))

C4_Witness ==
    /\ pc = "done"
    /\ UniqueTickers(old_stock_list)
    /\ UniqueTickers(latest_stock_list)
    /\ diff.added # {}
    /\ diff.removed # {}
    /\ diff.changed # {}

(***************************************************************************)
(* C5 as stated: every row of the normalized listing has a cik of exactly  *)
(* 10 decimal digits.                                                      *)
(***************************************************************************)
C5_Original ==
    \A k \in DOMAIN us_stock_list :
        Len(us_stock_list[k].cik) = CikWidth /\ AllDigits(us_stock_list[k].cik)

(***************************************************************************)
(* C5 as amended: every row of the normalized listing carries the source   *)
(* number as its plain decimal str, 1 to 10 digits without leading zeros;  *)
(* the 10-digit zero-padded form is what a ticker lookup returns, and it   *)
(* denotes the number of a row of the listing.                             *)
(***************************************************************************)
C5_PaddedByLookupOnly ==
    /\ \A k \in DOMAIN us_stock_list :
          LET c == us_stock_list[k].cik
          IN  /\ AllDigits(c)
              /\ Len(c) \in 1..CikWidth
              /\ Len(c) > 1 => c[1] # "0"
              /\ int(c) = SourceOf(cik_data, k).cik
    /\ (op = "search_cik" /\ exc = NoError)
          => /\ Len(ret) = CikWidth
             /\ AllDigits(ret)
             /\ \E k \in DOMAIN us_stock_list :
                   int(ret) = int(us_stock_list[k].cik)

C5_Witness ==
    /\ op = "search_cik"
    /\ exc = NoError
    /\ \E k \in DOMAIN us_stock_list :
          /\ Len(us_stock_list[k].cik) < CikWidth
          /\ int(ret) = int(us_stock_list[k].cik)

(***************************************************************************)
(* C6 as stated: no two rows of the normalized listing share a ticker.     *)
(***************************************************************************)
C6_Original == UniqueTickers(us_stock_list)

(***************************************************************************)
(* C6 as amended: the normalized listing has one row for every raw record  *)
(* of a listed exchange, in the order of the payload, so two raw records   *)
(* with the same ticker give two rows with that ticker; a lookup of a      *)
(* ticker that two rows carry raises ValueError.                           *)
(***************************************************************************)
C6_DuplicatesKept ==
    /\ Len(us_stock_list) = Cardinality(ListedIdx(cik_data))
    /\ \A k \in DOMAIN us_stock_list :
          /\ us_stock_list[k].ticker = SourceOf(cik_data, k).ticker
          /\ int(us_stock_list[k].cik) = SourceOf(cik_data, k).cik
    /\ (op = "search_cik"
           /\ \E i, j \in DOMAIN us_stock_list :
                 /\ i # j
                 /\ IsUpperOf(us_stock_list[i].ticker, arg)
                 /\ IsUpperOf(us_stock_list[j].ticker, arg))
          => exc = "ValueError"

C6_Witness ==
    /\ op = "search_cik"
    /\ exc = "ValueError"
    /\ Len(us_stock_list) = 2
    /\ us_stock_list[1].ticker = us_stock_list[2].ticker
    /\ us_stock_list[1].cik # us_stock_list[2].cik
    /\ IsUpperOf(us_stock_list[1].ticker, arg)

(***************************************************************************)
(* C7 as stated: a raw record with a missing field is dropped and the      *)
(* normalization still puts out every other record of a listed exchange;   *)
(* it never aborts the normalization or the run.                           *)
(***************************************************************************)
C7_Original ==
    Fetched
        => /\ error # "TypeError"
           /\ Len(latest_stock_list) =
                 Cardinality({i \in ListedIdx(cik_data) :
                                  cik_data[i].name # None})

(***************************************************************************)
(* C7 as amended: when a raw record of a listed exchange has no name, the  *)
(* normalization raises TypeError and the run ends with that error         *)
(* surfaced, with no listing made and nothing printed; a raw record        *)
(* without an exchange is left out by the exchange filter like any record  *)
(* of an unlisted exchange, every record of a listed exchange is kept, and *)
(* nothing but the Changeset is ever printed.                              *)
(***************************************************************************)
C7_MissingNameAborts ==
    Fetched
        => IF \E i \in ListedIdx(cik_data) : cik_data[i].name = None
           THEN /\ pc = "failed"
                /\ error = "TypeError"
                /\ latest_stock_list = <<>>
                /\ stdout = <<>>
           ELSE /\ error # "TypeError"
                /\ Len(latest_stock_list) = Cardinality(ListedIdx(cik_data))
                /\ \A i \in DOMAIN cik_data :
                      cik_data[i].exchange = None => i \notin ListedIdx(cik_data)
                /\ stdout \in {<<>>, <<diff>>}

C7_Witness ==
    /\ pc = "failed"
    /\ error = "TypeError"
    /\ \E i, j \in ListedIdx(cik_data) :
          cik_data[i].name = None /\ cik_data[j].name # None

(***************************************************************************)
(* C8: the normalized listing has a row for a raw record if and only if    *)
(* the record's exchange, compared without regard to case, is NASDAQ or    *)
(* NYSE; the rows are in the order of the payload and have the columns     *)
(* cik, name and ticker only.                                              *)
(***************************************************************************)
C8_ExchangeFilter ==
    Normalized
        => /\ Len(latest_stock_list) = Cardinality(ListedIdx(cik_data))
           /\ \A k \in DOMAIN latest_stock_list :
                 /\ DOMAIN latest_stock_list[k] = {"cik", "name", "ticker"}
                 /\ latest_stock_list[k].ticker = SourceOf(cik_data, k).ticker
                 /\ int(latest_stock_list[k].cik) = SourceOf(cik_data, k).cik

C8_Witness ==
    /\ pc = "done"
    /\ Len(cik_data) = 2
    /\ cik_data[1].exchange = <<"O","T","C">>
    /\ cik_data[2].exchange = <<"N","a","s","d","a","q">>
    /\ Len(latest_stock_list) = 1

(***************************************************************************)
(* C9 as stated: every row of the normalized listing has its ticker in     *)
(* uppercase.                                                              *)
(***************************************************************************)
C9_Original ==
    \A k \in DOMAIN us_stock_list :
        \A i \in 1..Len(us_stock_list[k].ticker) :
            ~IsLower(us_stock_list[k].ticker[i])

(***************************************************************************)
(* C9 as amended: every row of the normalized listing has the ticker of    *)
(* its raw record unchanged; a lookup uppercases the queried symbol only,  *)
(* so it returns exactly when one row carries the uppercase form of the    *)
(* symbol, and then returns the cik of that row; a row whose ticker has a  *)
(* lowercase letter is never found.                                        *)
(***************************************************************************)
C9_TickerKeptAsIs ==
    /\ \A k \in DOMAIN us_stock_list :
          us_stock_list[k].ticker = SourceOf(cik_data, k).ticker
    /\ op = "search_cik"
          => LET hits == {k \in DOMAIN us_stock_list :
                             IsUpperOf(us_stock_list[k].ticker, arg)}
             IN  /\ exc = NoError <=> Cardinality(hits) = 1
                 /\ exc # NoError => exc = "ValueError" /\ ret = None
                 /\ exc = NoError
                       => \A k \in hits : int(ret) = int(us_stock_list[k].cik)

C9_Witness ==
    /\ op = "search_cik"
    /\ arg = qcom
    /\ exc = "ValueError"
    /\ \E k \in DOMAIN us_stock_list : us_stock_list[k].ticker = qcom
    /\ \A k \in DOMAIN us_stock_list : us_stock_list[k].ticker # QCOM

(***************************************************************************)
(* C10: constructing a Stock raises CountryCodeValidationFailed for every  *)
(* country code that is not exactly three ASCII letters; for exactly three *)
(* letters the construction succeeds and country_code is the code in       *)
(* uppercase.                                                              *)
(***************************************************************************)
C10_OnlyAlpha3Accepted ==
    op = "Stock"
        => LET country_code == arg[2]
           IN  IF /\ country_code # None
                  /\ Len(country_code) = 3
                  /\ \A i \in 1..3 : IsLetter(country_code[i])
               THEN exc = NoError /\ stock.country_code = upper(country_code)
               ELSE exc = "CountryCodeValidationFailed"

====
